---- MODULE Spec2Model ----
(***************************************************************************)
(* Model of src/qchem/qchem_script_builder.py: the Q-Chem 4.0 job script   *)
(* builder v40 (examine_args, _parse_infile, build_script, the qchem_args  *)
(* setter) and determine_qchem_path.                                       *)
(*                                                                         *)
(* Python strings are sequences of one-character strings.  A Python value  *)
(* that may be None is an option: None is <<>>, a value x is <<x>>.        *)
(***************************************************************************)
EXTENDS Integers, Sequences, FiniteSets, TLC

VARIABLES data, qchem_args, files_copy_in, files_copy_out,
          files_copy_error_out, payload_hooks, error_hooks, last, calls

\* data: the queuing_system_data of the builder; qchem_args and the three
\* files_copy_* lists: the private fields of v40; payload_hooks, error_hooks:
\* the hooks registered with the base class; last: the last call, its
\* arguments and the exception that left it; calls: the number of
\* examine_args calls so far.
vars == <<data, qchem_args, files_copy_in, files_copy_out,
          files_copy_error_out, payload_hooks, error_hooks, last, calls>>

None == <<>>
Some(x) == <<x>>
Val(o) == o[1]

(***************************************************************************)
(* Python string primitives                                                *)
(***************************************************************************)
Whitespace == {" ", "\t", "\n"}

startswith(s, p) == Len(s) >= Len(p) /\ SubSeq(s, 1, Len(p)) = p

RECURSIVE lstrip(_)
lstrip(s) == IF s # <<>> /\ Head(s) \in Whitespace THEN lstrip(Tail(s)) ELSE s

RECURSIVE rstrip(_)
rstrip(s) ==
    IF s # <<>> /\ s[Len(s)] \in Whitespace
    THEN rstrip(SubSeq(s, 1, Len(s) - 1)) ELSE s

strip(s) == rstrip(lstrip(s))

\* s[n:]
slice_from(s, n) == SubSeq(s, n + 1, Len(s))

\* s.count(c) for a one-character c
RECURSIVE count(_, _)
count(s, c) ==
    IF s = <<>> THEN 0 ELSE (IF Head(s) = c THEN 1 ELSE 0) + count(Tail(s), c)

\* s.rfind(c) for a one-character c, as a 1-based index; 0 when absent
RECURSIVE rfind(_, _)
rfind(s, c) ==
    IF s = <<>> THEN 0
    ELSE IF s[Len(s)] = c THEN Len(s)
    ELSE rfind(SubSeq(s, 1, Len(s) - 1), c)

Digits == {"0", "1", "2", "3", "4", "5", "6", "7", "8", "9"}

DigitVal(c) ==
    CASE c = "0" -> 0 [] c = "1" -> 1 [] c = "2" -> 2 [] c = "3" -> 3
      [] c = "4" -> 4 [] c = "5" -> 5 [] c = "6" -> 6 [] c = "7" -> 7
      [] c = "8" -> 8 [] c = "9" -> 9

IsDigits(s) == s # <<>> /\ \A i \in 1..Len(s) : s[i] \in Digits

RECURSIVE DigitsVal(_)
DigitsVal(s) ==
    IF s = <<>> THEN 0
    ELSE 10 * DigitsVal(SubSeq(s, 1, Len(s) - 1)) + DigitVal(s[Len(s)])

\* int(s): surrounding whitespace, an optional sign, decimal digits.
\* The result is an option: None stands for ValueError.
int(s) ==
    LET t == strip(s)
        signed == t # <<>> /\ Head(t) \in {"+", "-"}
        body == IF signed THEN Tail(t) ELSE t
    IN  IF ~IsDigits(body) THEN None
        ELSE IF signed /\ Head(t) = "-" THEN Some(0 - DigitsVal(body))
        ELSE Some(DigitsVal(body))

\* os.path.splitext(p): <<root, ext>>.  The extension starts at the last
\* dot of the last path component, unless only dots precede it there.
splitext(p) ==
    LET sepIndex == rfind(p, "/")
        dotIndex == rfind(p, ".")
    IN  IF dotIndex > sepIndex
           /\ \E k \in (sepIndex + 1)..(dotIndex - 1) : p[k] # "."
        THEN <<SubSeq(p, 1, dotIndex - 1), SubSeq(p, dotIndex, Len(p))>>
        ELSE <<p, <<>>>>

(***************************************************************************)
(* Exceptions                                                              *)
(***************************************************************************)
NoExc == [type |-> "none", msg |-> ""]
Exc(t, m) == [type |-> t, msg |-> m]

(***************************************************************************)
(* Collaborators outside this file: queuing_system_data and                *)
(* shared_utils_lib                                                        *)
(***************************************************************************)
\* a fresh queuing_system_data: nothing set, no node types
EmptyData ==
    [walltime |-> None, physical_memory |-> None, virtual_memory |-> None,
     job_name |-> None, nodes |-> <<>>]

no_nodes(d) == Len(d.nodes)

add_node_type(d, no_procs) == [d EXCEPT !.nodes = Append(@, no_procs)]

\* utils.interpret_string_as_time_interval: a number of seconds, or None
\* when the string is rejected with an exception
interpret_string_as_time_interval(s) ==
    IF IsDigits(s) THEN Some(DigitsVal(s)) ELSE None

\* jobscript_builder.examine_args: values given on the command line are
\* stored in the queuing_system_data
base_examine_args(d, args) ==
    [d EXCEPT !.walltime = IF args.wt # None THEN args.wt ELSE @,
              !.physical_memory = IF args.mem # None THEN args.mem ELSE @,
              !.virtual_memory = IF args.vmem # None THEN args.vmem ELSE @,
              !.job_name = IF args.name # None THEN args.name ELSE @]

(***************************************************************************)
(* determine_qchem_path                                                    *)
(***************************************************************************)
InvalidByte == "0xFF"

\* the handlers of lines 52-55 evaluate e.argv[0] first; neither
\* CalledProcessError nor UnicodeDecodeError has an attribute argv
raise_path_error(e) ==
    Exc("AttributeError", "exception object has no attribute 'argv'")

\* run: the selector process, [returncode, output]
determine_qchem_path(version_string, run) ==
    IF run.returncode # 0
    THEN [exc |-> raise_path_error("CalledProcessError"), path |-> None]
    ELSE IF \E i \in 1..Len(run.output) : run.output[i] = InvalidByte
    THEN [exc |-> raise_path_error("UnicodeDecodeError"), path |-> None]
    ELSE [exc |-> NoExc, path |-> Some(strip(run.output))]

(***************************************************************************)
(* v40._parse_infile                                                       *)
(***************************************************************************)
QSYS_WT == <<"!", "Q", "S", "Y", "S", " ", "w", "t", "=">>
QSYS_NP == <<"!", "Q", "S", "Y", "S", " ", "n", "p", "=">>
END == <<"$", "e", "n", "d">>
MOLECULE == <<"$", "m", "o", "l", "e", "c", "u", "l", "e">>
REM == <<"$", "r", "e", "m">>
READ == <<"R", "E", "A", "D">>
THREADS == <<"t", "h", "r", "e", "a", "d", "s">>
MEM_TOTAL == <<"m", "e", "m", "_", "t", "o", "t", "a", "l">>

MB == 1024 * 1024

\* an exception inside the try blocks meets "except ArgumentParser", a
\* class that is no exception class
ExceptNonException ==
    Exc("TypeError",
        "catching classes that do not inherit from BaseException is not allowed")

\* the walltime test of line 225 left out
walltime_unset_always(d) == TRUE

walltime_unset(d) == d.walltime = None

physical_memory_unset(d) == d.physical_memory = None

virtual_memory_unset(d) == d.virtual_memory = None

\* lines 292-295
mem_total_directive(d, no) ==
    LET d1 == IF physical_memory_unset(d)
              THEN [d EXCEPT !.physical_memory = Some(no * MB)] ELSE d
    IN  IF virtual_memory_unset(d1)
        THEN [d1 EXCEPT !.virtual_memory = Some(no * MB)] ELSE d1

\* lines 266-280
threads_directive(d, rest) ==
    LET no == int(rest)
    IN  IF no = None THEN d
        ELSE IF no_nodes(d) < Val(no)
        THEN add_node_type(d, Val(no) - no_nodes(d))
        ELSE d

\* one pass of the loop body, lines 222-296.
\* st = [data, files_copy_in, section, exc]
parse_line(st, raw) ==
    LET line == strip(raw)
        d == st.data
    IN  IF startswith(line, QSYS_WT) /\ walltime_unset(d)
        THEN LET t == interpret_string_as_time_interval(strip(slice_from(line, 9)))
             IN  IF t = None THEN [st EXCEPT !.exc = ExceptNonException]
                 ELSE [st EXCEPT !.data.walltime = t]
        ELSE IF startswith(line, QSYS_NP) /\ no_nodes(d) = 0
        THEN LET t == interpret_string_as_time_interval(strip(slice_from(line, 9)))
             IN  IF t = None THEN [st EXCEPT !.exc = ExceptNonException]
                 ELSE [st EXCEPT !.data = add_node_type(d, Val(t))]
        ELSE IF startswith(line, END) THEN [st EXCEPT !.section = "none"]
        ELSE IF st.section = "none"
        THEN IF startswith(line, MOLECULE) THEN [st EXCEPT !.section = "molecule"]
             ELSE IF startswith(line, REM) THEN [st EXCEPT !.section = "rem"]
             ELSE st
        ELSE IF st.section = "molecule"
        THEN IF startswith(line, READ)
             THEN [st EXCEPT !.files_copy_in = Append(@, strip(slice_from(line, 4)))]
             ELSE st
        ELSE \* section = "rem"
             IF startswith(line, THREADS)
             THEN [st EXCEPT !.data = threads_directive(d, strip(slice_from(line, 7)))]
             ELSE IF startswith(line, MEM_TOTAL)
             THEN LET no == int(strip(slice_from(line, 9)))
                  IN  IF no = None THEN st
                      ELSE [st EXCEPT !.data = mem_total_directive(d, Val(no))]
             ELSE st

RECURSIVE parse_lines(_, _)
parse_lines(st, lines) ==
    IF lines = <<>> \/ st.exc # NoExc THEN st
    ELSE parse_lines(parse_line(st, Head(lines)), Tail(lines))

\* the scan of the whole file; the section starts as None
_parse_infile(d, copy_in, lines) ==
    parse_lines([data |-> d, files_copy_in |-> copy_in, section |-> "none",
                 exc |-> NoExc], lines)

(***************************************************************************)
(* v40.examine_args                                                        *)
(***************************************************************************)
DOT_OUT == <<".", "o", "u", "t">>

\* the savedir test of line 319 left out
check_args_no_path_test(args, isfile) ==
    IF ~isfile THEN Some("File not found")
    ELSE IF args.save /\ args.savedir = None
    THEN Some("If --save is provided a --savedir has to be set")
    ELSE None

\* lines 313-320: the message of the SystemExit raised, or None
check_args(args, isfile) ==
    IF ~isfile THEN Some("File not found")
    ELSE IF args.save /\ args.savedir = None
    THEN Some("If --save is provided a --savedir has to be set")
    ELSE IF args.savedir # None /\ count(Val(args.savedir), "/") > 0
    THEN Some("The savedir given should not be a path, just a name")
    ELSE None

\* lines 323-329: the fresh v40_qchem_args filled from the command line
new_qchem_args(args) ==
    [infile |-> Some(args.infile), outfile |-> None, save_flag |-> args.save,
     savedir |-> args.savedir, np_flag |-> args.np_to_qchem,
     nt_flag |-> args.nt_to_qchem, qchem_executable |-> None,
     use_perf |-> args.perf]

\* lines 338-340: splitext returns the extension with its dot
split_filename(infile) ==
    LET filename == splitext(infile)[1]
        extension == splitext(infile)[2]
    IN  IF extension # <<"i", "n">> THEN infile ELSE filename

\* the default output name without its ".out"
choose_outfile_no_suffix(args, filename) ==
    IF args.out = None THEN Some(filename) ELSE args.out

\* lines 343-346
choose_outfile(args, filename) ==
    IF args.out = None THEN Some(filename \o DOT_OUT) ELSE args.out

\* lines 349-350
complete_job_name(d, filename) ==
    IF d.job_name = None THEN [d EXCEPT !.job_name = Some(filename)] ELSE d

\* lines 365-366
final_copy_out(copy_out, outfile) ==
    IF outfile # None THEN Append(copy_out, Val(outfile)) ELSE copy_out

\* self = [data, qchem_args, files_copy_in, files_copy_out,
\*         files_copy_error_out]; content is the file at args.infile (None
\* when there is no such file), run the version selector's process.
\* The result is the builder afterwards, the exception that left the method,
\* the data the base class handed over, and whether the file was opened.
examine_args(self, args, content, run) ==
    LET d0 == base_examine_args(self.data, args)
        rejected == check_args(args, content # None)
        qa0 == new_qchem_args(args)
        sel == determine_qchem_path(args.version, run)
        qa1 == IF args.version # None
               THEN [qa0 EXCEPT !.qchem_executable = sel.path] ELSE qa0
        filename == split_filename(args.infile)
        qa2 == [qa1 EXCEPT !.outfile = choose_outfile(args, filename)]
        d1 == complete_job_name(d0, filename)
        scan == _parse_infile(d1, <<args.infile>>, Val(content))
        base == [self EXCEPT !.data = d0]
    IN  IF rejected # None
        THEN [self |-> base, exc |-> Exc("SystemExit", Val(rejected)),
              base_data |-> d0, scanned |-> FALSE]
        ELSE IF args.version # None /\ sel.exc # NoExc
        THEN [self |-> [base EXCEPT !.qchem_args = Some(qa0)],
              exc |-> IF sel.exc.type = "QChemPathNotDeterminedError"
                      THEN Exc("SystemExit",
                               "Invalid Q-Chem version string passed via --version")
                      ELSE sel.exc,
              base_data |-> d0, scanned |-> FALSE]
        ELSE [self |-> [data |-> scan.data,
                        qchem_args |-> Some(qa2),
                        files_copy_in |-> Some(scan.files_copy_in),
                        files_copy_out |->
                            IF scan.exc # NoExc THEN Some(<<>>)
                            ELSE Some(final_copy_out(<<>>, qa2.outfile)),
                        files_copy_error_out |-> Some(<<Val(qa2.outfile)>>)],
              exc |-> scan.exc, base_data |-> d0, scanned |-> TRUE]

(***************************************************************************)
(* v40.build_script                                                        *)
(***************************************************************************)
DefaultPriority == 0

Hook(kind, priority) == [hook |-> kind, priority |-> priority]

\* jobscript_builder.add_payload_hook / add_error_hook
add_hook(hooks, hook, priority) == Append(hooks, Hook(hook, priority))

\* the outfile test of line 372 left out
data_not_ready_no_outfile_test(qa) ==
    IF qa.qchem_executable = None
    THEN Some("No path to a Q-Chem wrapper script provided.")
    ELSE IF qa.save_flag /\ qa.savedir = None
    THEN Some("If save_flag is set, we need a savedir as well")
    ELSE None

\* lines 369-376: the message of the DataNotReady raised, or None
data_not_ready(qa) ==
    IF qa.qchem_executable = None
    THEN Some("No path to a Q-Chem wrapper script provided.")
    ELSE IF qa.outfile = None THEN Some("No outputfile provided")
    ELSE IF qa.save_flag /\ qa.savedir = None
    THEN Some("If save_flag is set, we need a savedir as well")
    ELSE None

\* the copy-in hook registered behind the payload
register_copy_in_late(hooks) ==
    add_hook(add_hook(hooks, "copy_in", 1000), "qchem_payload", DefaultPriority)

\* lines 378-379
register_copy_in_and_payload(hooks) ==
    add_hook(add_hook(hooks, "copy_in", -1000), "qchem_payload", DefaultPriority)

\* lines 378-380
register_payload_hooks(hooks) ==
    add_hook(register_copy_in_and_payload(hooks), "copy_out", 1000)

\* line 382
register_error_hooks(hooks) == add_hook(hooks, "copy_out", -1000)

\* self = [qchem_args, files_copy_in, files_copy_out, payload_hooks,
\*         error_hooks].  in_ok, out_ok: whether copy_in_hook and
\* copy_out_hook accept a list that is None; base_ok: whether the base
\* class assembles the script or raises DataNotReady.
build_script(self, in_ok, out_ok, base_ok) ==
    LET qa == Val(self.qchem_args)
        not_ready == data_not_ready(qa)
        unchanged == [payload_hooks |-> self.payload_hooks,
                      error_hooks |-> self.error_hooks]
        HookTypeError == Exc("TypeError", "hook argument is not a list")
    IN  IF self.qchem_args = None
        THEN [hooks |-> unchanged,
              exc |-> Exc("AttributeError",
                          "'NoneType' object has no attribute 'qchem_executable'")]
        ELSE IF not_ready # None
        THEN [hooks |-> unchanged, exc |-> Exc("DataNotReady", Val(not_ready))]
        ELSE IF self.files_copy_in = None /\ ~in_ok
        THEN [hooks |-> unchanged, exc |-> HookTypeError]
        ELSE IF self.files_copy_out = None /\ ~out_ok
        THEN [hooks |-> [unchanged EXCEPT !.payload_hooks =
                            register_copy_in_and_payload(@)],
              exc |-> HookTypeError]
        ELSE [hooks |-> [payload_hooks |-> register_payload_hooks(self.payload_hooks),
                         error_hooks |-> register_error_hooks(self.error_hooks)],
              exc |-> IF base_ok THEN NoExc
                      ELSE Exc("DataNotReady", "base class data not ready")]

(***************************************************************************)
(* Inputs                                                                  *)
(***************************************************************************)
MaxExamine == 1
MaxHooks == 6
MaxLines == 3

InfileNames == {<<"a", ".", "i", "n">>, <<"b", ".", "x">>, <<"c">>}
OutChoices == {None, Some(<<"o">>)}
SavedirChoices == {None, Some(<<"s">>), Some(<<"d", "/", "s">>)}
VersionChoices == {None, Some(<<"4">>)}

NoCmdline == [wt |-> None, mem |-> None, vmem |-> None, name |-> None]

\* the version selector: prints a path, exits non-zero, or prints bytes
\* that are not UTF-8
NoRun == [returncode |-> 0, output |-> <<>>]
SelectorRuns ==
    {[returncode |-> 0, output |-> <<"/", "q", "\n">>],
     [returncode |-> 1, output |-> <<>>],
     [returncode |-> 0, output |-> <<InvalidByte>>]}

RunsFor(args) == IF args.version = None THEN {NoRun} ELSE SelectorRuns

\* an input file with every kind of line
SampleInfile ==
    <<QSYS_WT \o <<"5", "\n">>,
      MOLECULE \o <<"\n">>,
      READ \o <<" ", "g", "\n">>,
      END \o <<"\n">>,
      REM \o <<"\n">>,
      <<" ">> \o MEM_TOTAL \o <<" ", "3", "\n">>,
      THREADS \o <<" ", "2", "\n">>,
      END \o <<"\n">>>>

\* the file at args.infile: none, or SampleInfile
InfileStates == {None, Some(SampleInfile)}

\* command lines of the builder's life cycle
LifeArgs ==
    {r @@ NoCmdline :
        r \in [infile : {<<"a", ".", "i", "n">>}, out : {None}, save : BOOLEAN,
               savedir : SavedirChoices, version : VersionChoices,
               np_to_qchem : {FALSE}, nt_to_qchem : {FALSE}, perf : {FALSE}]}

\* command lines of a first examine_args
ArgsSet ==
    [infile : InfileNames, out : OutChoices, save : BOOLEAN,
     savedir : SavedirChoices, version : VersionChoices,
     np_to_qchem : BOOLEAN, nt_to_qchem : {FALSE}, perf : BOOLEAN,
     wt : {None}, mem : {None}, vmem : {None}, name : {None, Some(<<"j">>)}]

\* input files of the scanner: every sequence of at most MaxLines lines
ScanLines ==
    {QSYS_WT \o <<"5", "\n">>,
     QSYS_WT \o <<"h">>,
     QSYS_NP \o <<"2">>,
     REM,
     MOLECULE,
     END,
     <<" ">> \o MEM_TOTAL \o <<" ", "3", "\n">>,
     MEM_TOTAL \o <<" ", "x">>,
     READ \o <<" ", "g">>,
     THREADS \o <<" ", "2">>}

FileContents == UNION {[1..n -> ScanLines] : n \in 0..MaxLines}

ScanCmdline ==
    [wt : {None, Some(7)}, mem : {None, Some(9)}, vmem : {None, Some(9)},
     name : {None}]

ScanArgs ==
    [infile |-> <<"a", ".", "i", "n">>, out |-> None, save |-> FALSE,
     savedir |-> None, version |-> None, np_to_qchem |-> FALSE,
     nt_to_qchem |-> FALSE, perf |-> FALSE]

\* objects handed to the qchem_args setter
QchemArgsValues ==
    [infile : {Some(<<"a", ".", "i", "n">>)}, outfile : OutChoices,
     save_flag : BOOLEAN, savedir : {None, Some(<<"s">>)},
     np_flag : {FALSE}, nt_flag : {FALSE},
     qchem_executable : {None, Some(<<"/", "q">>)}, use_perf : {FALSE}]

(***************************************************************************)
(* The builder                                                             *)
(***************************************************************************)
Last(op, exc, args, content, run, base_data, scanned) ==
    [op |-> op, exc |-> exc, args |-> args, content |-> content, run |-> run,
     base_data |-> base_data, scanned |-> scanned]

\* v40.__init__
Init ==
    /\ data = EmptyData
    /\ qchem_args = None
    /\ files_copy_in = None
    /\ files_copy_out = None
    /\ files_copy_error_out = None
    /\ payload_hooks = <<>>
    /\ error_hooks = <<>>
    /\ last = Last("new", NoExc, None, None, NoRun, None, FALSE)
    /\ calls = 0

Examine(args, content, run) ==
    LET r == examine_args([data |-> data, qchem_args |-> qchem_args,
                           files_copy_in |-> files_copy_in,
                           files_copy_out |-> files_copy_out,
                           files_copy_error_out |-> files_copy_error_out],
                          args, content, run)
    IN  /\ data' = r.self.data
        /\ qchem_args' = r.self.qchem_args
        /\ files_copy_in' = r.self.files_copy_in
        /\ files_copy_out' = r.self.files_copy_out
        /\ files_copy_error_out' = r.self.files_copy_error_out
        /\ last' = Last("examine_args", r.exc, Some(args), content, run,
                        Some(r.base_data), r.scanned)
        /\ calls' = calls + 1
        /\ UNCHANGED <<payload_hooks, error_hooks>>

ExamineArgs ==
    /\ calls < MaxExamine
    /\ \E args \in LifeArgs, content \in InfileStates :
          \E run \in RunsFor(args) : Examine(args, content, run)

\* the qchem_args setter, lines 162-166
SetQchemArgs ==
    /\ \E val \in QchemArgsValues, isinstance \in BOOLEAN :
          /\ qchem_args' = IF isinstance THEN Some(val) ELSE qchem_args
          /\ last' = Last("set_qchem_args",
                          IF isinstance THEN NoExc
                          ELSE Exc("TypeError", "val should be of type v40_qchem_args"),
                          None, None, NoRun, None, FALSE)
    /\ UNCHANGED <<data, files_copy_in, files_copy_out, files_copy_error_out,
                   payload_hooks, error_hooks, calls>>

BuildScript ==
    /\ Len(payload_hooks) + 3 <= MaxHooks
    /\ \E in_ok \in BOOLEAN, out_ok \in BOOLEAN, base_ok \in BOOLEAN :
          LET r == build_script([qchem_args |-> qchem_args,
                                 files_copy_in |-> files_copy_in,
                                 files_copy_out |-> files_copy_out,
                                 payload_hooks |-> payload_hooks,
                                 error_hooks |-> error_hooks],
                                in_ok, out_ok, base_ok)
          IN  /\ payload_hooks' = r.hooks.payload_hooks
              /\ error_hooks' = r.hooks.error_hooks
              /\ last' = Last("build_script", r.exc, None, None, NoRun, None, FALSE)
    /\ UNCHANGED <<data, qchem_args, files_copy_in, files_copy_out,
                   files_copy_error_out, calls>>

\* the life cycle of a builder: any order of its operations
Next == ExamineArgs \/ SetQchemArgs \/ BuildScript

Spec == Init /\ [][Next]_vars

\* the first examine_args of a fresh builder, over every command line
FirstExamine ==
    /\ last.op = "new"
    /\ \E args \in ArgsSet, content \in InfileStates :
          \E run \in RunsFor(args) : Examine(args, content, run)

ArgNext == FirstExamine

ArgSpec == Init /\ [][ArgNext]_vars

\* the first examine_args of a fresh builder, over every input file of at
\* most MaxLines lines
ScanExamine ==
    /\ last.op = "new"
    /\ \E q \in ScanCmdline, f \in FileContents :
          Examine(ScanArgs @@ q, Some(f), NoRun)

ScanNext == ScanExamine

ScanSpec == Init /\ [][ScanNext]_vars

(***************************************************************************)
(* Properties                                                              *)
(***************************************************************************)
ExamineDone == last.op = "examine_args"
ExamineOk == last.op = "examine_args" /\ last.exc = NoExc

\* C1: a value that is already set when the scan of the infile starts is
\* the value after the scan: a "!QSYS wt=" line never replaces a walltime,
\* and a "mem_total" line never replaces a physical or virtual memory; only
\* a value that is still None is filled.
C1_CommandLinePreference ==
    (ExamineDone /\ last.scanned) =>
        LET start == Val(last.base_data)
        IN  /\ start.walltime # None => data.walltime = start.walltime
            /\ start.physical_memory # None
                  => data.physical_memory = start.physical_memory
            /\ start.virtual_memory # None
                  => data.virtual_memory = start.virtual_memory

\* walltime and physical memory come from the command line, the file has a
\* walltime directive and a mem_total in its $rem section, and the scan
\* filled the virtual memory, which was still None
C1_Witness ==
    /\ ExamineOk /\ last.scanned
    /\ last.content = Some(<<QSYS_WT \o <<"5", "\n">>, REM,
                             <<" ">> \o MEM_TOTAL \o <<" ", "3", "\n">>>>)
    /\ Val(last.base_data).walltime = Some(7)
    /\ Val(last.base_data).physical_memory = Some(9)
    /\ Val(last.base_data).virtual_memory = None
    /\ data.walltime = Some(7)
    /\ data.physical_memory = Some(9)
    /\ data.virtual_memory = Some(3 * 1024 * 1024)

BadInput(args, content) ==
    \/ content = None
    \/ args.save /\ args.savedir = None
    \/ args.savedir # None /\ \E i \in 1..Len(Val(args.savedir)) :
                                 Val(args.savedir)[i] = "/"

\* C2: an examine_args whose infile is no file, or that has --save without
\* --savedir, or whose --savedir holds a "/", ends in SystemExit, leaves
\* qchem_args and the three file lists as they were, and opens no file.
C2_RejectionLeavesBuilder ==
    [][(last'.op = "examine_args"
          /\ BadInput(Val(last'.args), last'.content))
       => /\ last'.exc.type = "SystemExit"
          /\ qchem_args' = qchem_args
          /\ files_copy_in' = files_copy_in
          /\ files_copy_out' = files_copy_out
          /\ files_copy_error_out' = files_copy_error_out
          /\ ~last'.scanned]_vars

\* a rejected --savedir with a "/" on a builder whose qchem_args were set
\* before and whose lists do not exist
C2_Witness ==
    /\ ExamineDone
    /\ last.content # None
    /\ Val(last.args).savedir = Some(<<"d", "/", "s">>)
    /\ last.exc = Exc("SystemExit",
                      "The savedir given should not be a path, just a name")
    /\ qchem_args # None
    /\ files_copy_in = None /\ files_copy_out = None
    /\ files_copy_error_out = None

Added(old, new) == SubSeq(new, Len(old) + 1, Len(new))

\* C3: a build_script that returns adds exactly three payload hooks,
\* copy-in at -1000, the payload at 0 and copy-out at 1000, in ascending
\* priority, and exactly one error hook, copy-out at -1000.
C3_HooksAtFixedPriorities ==
    [][(last'.op = "build_script" /\ last'.exc = NoExc)
       => /\ Len(payload_hooks') = Len(payload_hooks) + 3
          /\ SubSeq(payload_hooks', 1, Len(payload_hooks)) = payload_hooks
          /\ Added(payload_hooks, payload_hooks') =
                <<[hook |-> "copy_in", priority |-> -1000],
                  [hook |-> "qchem_payload", priority |-> 0],
                  [hook |-> "copy_out", priority |-> 1000]>>
          /\ Added(payload_hooks, payload_hooks')[1].priority
                < Added(payload_hooks, payload_hooks')[2].priority
          /\ Added(payload_hooks, payload_hooks')[2].priority
                < Added(payload_hooks, payload_hooks')[3].priority
          /\ error_hooks' =
                Append(error_hooks, [hook |-> "copy_out", priority |-> -1000])]_vars

\* the second build_script of a builder has returned
C3_Witness ==
    /\ last.op = "build_script" /\ last.exc = NoExc
    /\ Len(payload_hooks) = 6 /\ Len(error_hooks) = 2

EndsInDotIn(s) == Len(s) >= 3 /\ SubSeq(s, Len(s) - 2, Len(s)) = <<".", "i", "n">>

\* C5: after an examine_args that returns, a job name that was set is
\* unchanged; one that was None is the infile without its ".in" when the
\* infile ends in ".in", and the whole infile otherwise.
C5_JobNameCompletion ==
    ExamineOk =>
        LET args == Val(last.args)
            before == Val(last.base_data).job_name
        IN  /\ before # None => data.job_name = before
            /\ before = None =>
                  data.job_name =
                     Some(IF EndsInDotIn(args.infile)
                          THEN SubSeq(args.infile, 1, Len(args.infile) - 3)
                          ELSE args.infile)

\* C6: a build_script on qchem_args without executable, without outfile, or
\* with save_flag and no savedir raises DataNotReady and adds no hook; hooks
\* are added only when none of the three holds.
NotReady(qa) ==
    \/ qa.qchem_executable = None
    \/ qa.outfile = None
    \/ qa.save_flag /\ qa.savedir = None

C6_DataNotReady ==
    [][(last'.op = "build_script")
       => /\ (qchem_args # None /\ NotReady(Val(qchem_args)))
                => /\ last'.exc.type = "DataNotReady"
                   /\ payload_hooks' = payload_hooks
                   /\ error_hooks' = error_hooks
          /\ (payload_hooks' # payload_hooks \/ error_hooks' # error_hooks)
                => /\ qchem_args # None
                   /\ ~NotReady(Val(qchem_args))]_vars

\* build_script refused qchem_args without an outfile on a builder that
\* had registered its hooks once before
C6_Witness ==
    /\ last.op = "build_script"
    /\ last.exc = Exc("DataNotReady", "No outputfile provided")
    /\ Val(qchem_args).outfile = None
    /\ Len(payload_hooks) = 3 /\ Len(error_hooks) = 1

Decodable(run) ==
    run.returncode = 0 /\ \A i \in 1..Len(run.output) : run.output[i] # InvalidByte

\* C7: an examine_args with --version that passes the checks of the command
\* line sets qchem_executable to the selector's stripped output when the
\* selector succeeds, and otherwise ends in
\* SystemExit("Invalid Q-Chem version string passed via --version").
C7_VersionSelector ==
    (/\ ExamineDone
     /\ Val(last.args).version # None
     /\ ~BadInput(Val(last.args), last.content))
    => IF Decodable(last.run)
       THEN Val(qchem_args).qchem_executable = Some(<<"/", "q">>)
       ELSE last.exc = Exc("SystemExit",
                           "Invalid Q-Chem version string passed via --version")

====
